---- MODULE Spec2Model ----
(***************************************************************************)
(* A model of ts-cli (src/mod.tsx): the token cursor ArgIter, the matchers *)
(* Builtin.STRING / NUMBER / BOOLEAN, literal, optional, or, named, the    *)
(* dispatcher CLI.register / CLI.execute / CLI.tryExecute, and the styled  *)
(* text renderer createElement / getString.                                *)
(*                                                                         *)
(* JavaScript strings are sequences of one-character strings, so that      *)
(* toLocaleLowerCase and parseInt are computed character by character.     *)
(* JavaScript values are records [t, b, n, s]: t is the typeof tag         *)
(* ("undefined", "null", "boolean", "number", "string"), and b, n, s carry *)
(* the boolean, the number or the string.                                  *)
(***************************************************************************)
EXTENDS Integers, Sequences, FiniteSets, TLC

VARIABLES
    args,       \* ArgIter.args: the token list of the cursor under test
    idx,        \* ArgIter.idx: its position
    iterOp,     \* the last use of the cursor: "none" (no cursor yet), "new", "next",
                \* "last", or "parse" (handed to a matcher)
    iterRet,    \* what that call returned
    iterRead,   \* the indexes of args that call read
    iterPrev,   \* idx before that call
    arg,        \* the matcher (ArgData) built so far during set-up
    made,       \* the last combinator call of set-up: [fn, type1, type2]
    thrown,     \* the Error a combinator threw at construction (NoError if none)
    parsed,     \* the last arg.parse(iter): [entry, ret, exit, done], the position
                \* before, the value returned, the position after
    cmds,       \* CLI.args: the registered commands, in registration order
    argv,       \* Deno.args as read by the execute() that ran
    pc,         \* the dispatcher's position: "setup" or "done"
    calls,      \* the callbacks execute() invoked: <<[cmd, input]>>, in order
    attempted,  \* the indexes of the commands execute() passed to tryExecute
    helpCount,  \* how many times execute() called printHelp
    node,       \* the Node createElement returned last (NoNode before the first)
    rendered,   \* whether print(node) has run
    printed,    \* the string print(node) wrote, as a sequence of pieces
    events,     \* the style pushes and pops of that rendering, in order
    styleEnd    \* the style array when getString returned

iterVars  == <<args, idx, iterOp, iterRet, iterRead, iterPrev>>
parseVars == <<arg, made, thrown, parsed>>
cliVars   == <<cmds, argv, pc, calls, attempted, helpCount>>
renderVars == <<node, rendered, printed, events, styleEnd>>
vars      == <<iterVars, parseVars, cliVars, renderVars>>

----------------------------------------------------------------------------
(* Bounds of the model.                                                    *)

\* The longest token list given to a cursor or a matcher under test.
MaxTokens == 2
\* The longest Deno.args given to execute().
MaxArgv == 3
\* The number of commands registered before execute().
MaxCmds == 2
\* The nesting depth of optional(...) and or(...) in a matcher under test.
MaxDepth == 2
\* The nesting depth of the Nodes of a tree given to print().
MaxNest == 3

----------------------------------------------------------------------------
(* JavaScript values.                                                      *)

Undefined == [t |-> "undefined", b |-> FALSE, n |-> 0, s |-> <<>>]
Null      == [t |-> "null",      b |-> FALSE, n |-> 0, s |-> <<>>]
Bool(x)   == [t |-> "boolean",   b |-> x,     n |-> 0, s |-> <<>>]
Num(x)    == [t |-> "number",    b |-> FALSE, n |-> x, s |-> <<>>]
Str(x)    == [t |-> "string",    b |-> FALSE, n |-> 0, s |-> x]

\* ToBoolean: what `if (v)` and `!v` test.
Truthy(v) ==
    CASE v.t = "boolean" -> v.b
      [] v.t = "number"  -> v.n # 0
      [] v.t = "string"  -> v.s # <<>>
      [] OTHER           -> FALSE

\* v ?? d
Coalesce(v, d) == IF v = Undefined \/ v = Null THEN d ELSE v

----------------------------------------------------------------------------
(* Strings.                                                                *)

UpperChars == <<"A","B","C","D","E","F","G","H","I","J","K","L","M",
                "N","O","P","Q","R","S","T","U","V","W","X","Y","Z">>
LowerChars == <<"a","b","c","d","e","f","g","h","i","j","k","l","m",
                "n","o","p","q","r","s","t","u","v","w","x","y","z">>
DigitChars == <<"0","1","2","3","4","5","6","7","8","9">>

IndexOf(seq, c) ==
    IF \E i \in DOMAIN seq : seq[i] = c
    THEN CHOOSE i \in DOMAIN seq : seq[i] = c
    ELSE 0

LowerChar(c) == IF IndexOf(UpperChars, c) # 0 THEN LowerChars[IndexOf(UpperChars, c)] ELSE c

\* String.prototype.toLocaleLowerCase on the letters A-Z (host locales that map
\* I to a dotless i are outside the token alphabet used here).
toLocaleLowerCase(s) == [i \in DOMAIN s |-> LowerChar(s[i])]

IsDigit(c) == IndexOf(DigitChars, c) # 0
DigitVal(c) == IndexOf(DigitChars, c) - 1

RECURSIVE SkipSpaces(_)
SkipSpaces(s) == IF s # <<>> /\ Head(s) = " " THEN SkipSpaces(Tail(s)) ELSE s

RECURSIVE DigitRun(_)
\* the longest prefix of s made of decimal digits
DigitRun(s) == IF s # <<>> /\ IsDigit(Head(s)) THEN <<Head(s)>> \o DigitRun(Tail(s)) ELSE <<>>

RECURSIVE DigitsValue(_, _)
DigitsValue(ds, acc) ==
    IF ds = <<>> THEN acc ELSE DigitsValue(Tail(ds), acc * 10 + DigitVal(Head(ds)))

\* parseInt(s) with no radix: leading blanks, an optional sign, then the longest
\* run of decimal digits; NaN when that run is empty. (A 0x prefix would select
\* radix 16; no token of the alphabet used here starts with it.)
parseInt(s) ==
    LET t      == SkipSpaces(s)
        signed == t # <<>> /\ Head(t) \in {"-", "+"}
        body   == IF signed THEN Tail(t) ELSE t
        ds     == DigitRun(body)
        mag    == DigitsValue(ds, 0)
    IN  IF ds = <<>>
        THEN [nan |-> TRUE, n |-> 0]
        ELSE [nan |-> FALSE, n |-> IF signed /\ Head(t) = "-" THEN 0 - mag ELSE mag]

----------------------------------------------------------------------------
(* ArgIter: the token cursor. An iterator is [args, idx]; a method returns *)
(* [ret, iter, read]: the value returned, the iterator after the call and  *)
(* the set of the indexes of args the call read.                           *)

ArgIter(tokens) == [args |-> tokens, idx |-> -1]

\* this.args[i]: undefined outside 0..length-1 (TLA+ sequences start at 1)
ArgsAt(tokens, i) == IF i \in 0 .. (Len(tokens) - 1) THEN Str(tokens[i + 1]) ELSE Undefined

\* next() with the end test off by one (> for >=)
ArgIter_next_offByOne(iter) ==
    LET i == iter.idx + 1
    IN  IF i > Len(iter.args)
        THEN [ret |-> Undefined, iter |-> [iter EXCEPT !.idx = Len(iter.args) - 1], read |-> {}]
        ELSE [ret |-> ArgsAt(iter.args, i), iter |-> [iter EXCEPT !.idx = i], read |-> {i}]

ArgIter_next(iter) ==
    LET i == iter.idx + 1
    IN  IF i >= Len(iter.args)
        THEN [ret |-> Undefined, iter |-> [iter EXCEPT !.idx = Len(iter.args) - 1], read |-> {}]
        ELSE [ret |-> ArgsAt(iter.args, i), iter |-> [iter EXCEPT !.idx = i], read |-> {i}]

ArgIter_last(iter) ==
    LET i == iter.idx - 1
    IN  IF i < 0
        THEN [ret |-> Undefined, iter |-> [iter EXCEPT !.idx = 0], read |-> {}]
        ELSE [ret |-> ArgsAt(iter.args, i), iter |-> [iter EXCEPT !.idx = i], read |-> {i}]

----------------------------------------------------------------------------
(* Matchers (ArgData). A matcher is [kind, val, literal, optional, name,   *)
(* subs]: kind selects the parse function, val is the text of a literal,   *)
(* literal and optional are the flags or() and tryExecute read, name is    *)
(* the display name, subs are the matchers its parse closure captured.     *)
(* The type descriptor, which only the help text reads, is not modelled.   *)

NoName == "(unnamed)"

Builtin_STRING  == [kind |-> "STRING",  val |-> <<>>, literal |-> FALSE, optional |-> FALSE, name |-> NoName, subs |-> <<>>]
Builtin_NUMBER  == [kind |-> "NUMBER",  val |-> <<>>, literal |-> FALSE, optional |-> FALSE, name |-> NoName, subs |-> <<>>]
Builtin_BOOLEAN == [kind |-> "BOOLEAN", val |-> <<>>, literal |-> FALSE, optional |-> FALSE, name |-> NoName, subs |-> <<>>]

literal(v) == [kind |-> "literal", val |-> v, literal |-> TRUE, optional |-> FALSE, name |-> NoName, subs |-> <<>>]

optional(type) == [kind |-> "optional", val |-> <<>>, literal |-> FALSE, optional |-> TRUE, name |-> NoName, subs |-> <<type>>]

\* { name, ...arg }: a name property arg already has overrides the new one
named(a, n) == IF a.name # NoName THEN a ELSE [a EXCEPT !.name = n]

NoError == [kind |-> "NoError", message |-> "", val |-> Undefined]
error_or_literal(v)  == [kind |-> "Error", message |-> "Cannot or with a literal argument.", val |-> v]
error_or_optional(v) == [kind |-> "Error", message |-> "Cannot or with an optional argument, optional must be the last method.", val |-> v]
IsError(x) == x.kind = "Error"

\* or() without the test of type2.optional
or_type2OptionalUnchecked(type1, type2) ==
    IF type1.literal THEN error_or_literal(type1)
    ELSE IF type2.literal THEN error_or_literal(type2)
    ELSE IF type1.optional THEN error_or_optional(type1)
    ELSE [kind |-> "or", val |-> <<>>, literal |-> FALSE, optional |-> FALSE, name |-> NoName, subs |-> <<type1, type2>>]

\* or(type1, type2): the Error it throws, or the matcher it returns
or(type1, type2) ==
    IF type1.literal THEN error_or_literal(type1)
    ELSE IF type2.literal THEN error_or_literal(type2)
    ELSE IF type1.optional THEN error_or_optional(type1)
    ELSE IF type2.optional THEN error_or_optional(type1)
    ELSE [kind |-> "or", val |-> <<>>, literal |-> FALSE, optional |-> FALSE, name |-> NoName, subs |-> <<type1, type2>>]

----------------------------------------------------------------------------
(* The parse functions: each returns [ret, iter], the value returned and   *)
(* the iterator as the call left it.                                       *)

STRING_parse(iter) ==
    LET nx == ArgIter_next(iter)
    IN  [ret |-> nx.ret, iter |-> nx.iter]

NUMBER_parse(iter) ==
    LET nx  == ArgIter_next(iter)
        num == parseInt(nx.ret.s)
    IN  IF ~Truthy(nx.ret) THEN [ret |-> Undefined, iter |-> nx.iter]
        ELSE IF num.nan THEN [ret |-> Undefined, iter |-> nx.iter]
        ELSE [ret |-> Num(num.n), iter |-> nx.iter]

BOOLEAN_parse(iter) ==
    LET nx == ArgIter_next(iter)
    IN  IF ~Truthy(nx.ret) THEN [ret |-> Undefined, iter |-> nx.iter]
        ELSE IF toLocaleLowerCase(nx.ret.s) = <<"t","r","u","e">> THEN [ret |-> Bool(TRUE), iter |-> nx.iter]
        ELSE IF toLocaleLowerCase(nx.ret.s) = <<"f","a","l","s","e">> THEN [ret |-> Bool(FALSE), iter |-> nx.iter]
        ELSE [ret |-> Undefined, iter |-> nx.iter]

literal_parse(v, iter) ==
    LET nx == ArgIter_next(iter)
    IN  IF ~Truthy(nx.ret) THEN [ret |-> Undefined, iter |-> nx.iter]
        ELSE [ret  |-> IF toLocaleLowerCase(nx.ret.s) = toLocaleLowerCase(v) THEN Bool(TRUE) ELSE Undefined,
              iter |-> nx.iter]

RECURSIVE parse(_, _)

\* optional's parse returning the wrapped result as it is (no ?? null)
optional_parse_noNull(type, iter) ==
    LET startIdx == iter.idx
        p        == parse(type, iter)
    IN  [ret |-> p.ret, iter |-> [p.iter EXCEPT !.idx = startIdx]]

optional_parse(type, iter) ==
    LET startIdx == iter.idx
        p        == parse(type, iter)
    IN  [ret |-> Coalesce(p.ret, Null), iter |-> [p.iter EXCEPT !.idx = startIdx]]

\* or's parse handing type2 the cursor as type1 left it
or_parse_notRewound(first, startIdx) == first.iter

\* args.idx = startIdx: the cursor or's parse hands to type2
or_parse_rewound(first, startIdx) == [first.iter EXCEPT !.idx = startIdx]

or_parse(type1, type2, iter) ==
    LET startIdx == iter.idx
        first    == parse(type1, iter)
    IN  IF Truthy(first.ret) THEN first
        ELSE parse(type2, or_parse_rewound(first, startIdx))

\* type.parse(iter): the parse property of the matcher object
parse(type, iter) ==
    CASE type.kind = "STRING"   -> STRING_parse(iter)
      [] type.kind = "NUMBER"   -> NUMBER_parse(iter)
      [] type.kind = "BOOLEAN"  -> BOOLEAN_parse(iter)
      [] type.kind = "literal"  -> literal_parse(type.val, iter)
      [] type.kind = "optional" -> optional_parse(type.subs[1], iter)
      [] type.kind = "or"       -> or_parse(type.subs[1], type.subs[2], iter)

RECURSIVE Depth(_)
\* how deeply optional(...) and or(...) are nested in a matcher
Depth(type) ==
    IF type.subs = <<>> THEN 0
    ELSE LET d1 == Depth(type.subs[1])
             d2 == IF Len(type.subs) > 1 THEN Depth(type.subs[2]) ELSE 0
         IN  1 + (IF d1 > d2 THEN d1 ELSE d2)

----------------------------------------------------------------------------
(* The dispatcher. A command (Argument) is [args]: its matchers; its       *)
(* callback is identified by the command's index in CLI.args.              *)

RECURSIVE tryExecute_loop(_, _, _, _)

\* the loop pushing every parsed value, a literal's too
tryExecute_loop_pushAll(types, k, iter, input) ==
    IF k > Len(types) THEN [matched |-> TRUE, input |-> input]
    ELSE LET type == types[k]
             p    == parse(type, iter)
         IN  IF p.ret = Undefined THEN [matched |-> FALSE, input |-> input]
             ELSE tryExecute_loop(types, k + 1, p.iter, Append(input, p.ret))

\* the for loop of tryExecute from the k-th matcher on
tryExecute_loop(types, k, iter, input) ==
    IF k > Len(types) THEN [matched |-> TRUE, input |-> input]
    ELSE LET type == types[k]
             p    == parse(type, iter)
         IN  IF p.ret = Undefined THEN [matched |-> FALSE, input |-> input]
             ELSE tryExecute_loop(types, k + 1, p.iter,
                                  IF ~type.literal THEN Append(input, p.ret) ELSE input)

\* tryExecute(arg) with Deno.args = tokens: [returned, called], the boolean it
\* returns and the argument lists arg.call was invoked with
tryExecute(a, tokens) ==
    LET r == tryExecute_loop(a.args, 1, ArgIter(tokens), <<>>)
    IN  [returned |-> r.matched, called |-> IF r.matched THEN <<r.input>> ELSE <<>>]

RECURSIVE execute_from(_, _, _)

\* execute() ignoring what tryExecute returns: every command is tried
execute_from_noReturn(list, i, tokens) ==
    IF i > Len(list) THEN [calls |-> <<>>, attempted |-> <<>>, help |-> 1]
    ELSE LET r    == tryExecute(list[i], tokens)
             here == [k \in DOMAIN r.called |-> [cmd |-> i, input |-> r.called[k]]]
             rest == execute_from(list, i + 1, tokens)
         IN  [calls     |-> here \o rest.calls,
              attempted |-> <<i>> \o rest.attempted,
              help      |-> rest.help]

\* execute() leaving the loop with break: printHelp runs after a match too
execute_from_break(list, i, tokens) ==
    IF i > Len(list) THEN [calls |-> <<>>, attempted |-> <<>>, help |-> 1]
    ELSE LET r    == tryExecute(list[i], tokens)
             here == [k \in DOMAIN r.called |-> [cmd |-> i, input |-> r.called[k]]]
         IN  IF r.returned THEN [calls |-> here, attempted |-> <<i>>, help |-> 1]
             ELSE LET rest == execute_from(list, i + 1, tokens)
                  IN  [calls     |-> here \o rest.calls,
                       attempted |-> <<i>> \o rest.attempted,
                       help      |-> rest.help]

\* execute() with one cursor for all attempts: the next command is tried on
\* the tokens after the first
execute_from_cursorKept(list, i, tokens) ==
    IF i > Len(list) THEN [calls |-> <<>>, attempted |-> <<>>, help |-> 1]
    ELSE LET r    == tryExecute(list[i], tokens)
             here == [k \in DOMAIN r.called |-> [cmd |-> i, input |-> r.called[k]]]
         IN  IF r.returned THEN [calls |-> here, attempted |-> <<i>>, help |-> 0]
             ELSE LET rest == execute_from(list, i + 1, IF tokens = <<>> THEN tokens ELSE Tail(tokens))
                  IN  [calls     |-> here \o rest.calls,
                       attempted |-> <<i>> \o rest.attempted,
                       help      |-> rest.help]

\* the for loop of execute from the i-th command on, then printHelp:
\* [calls, attempted, help]
execute_from(list, i, tokens) ==
    IF i > Len(list) THEN [calls |-> <<>>, attempted |-> <<>>, help |-> 1]
    ELSE LET r    == tryExecute(list[i], tokens)
             here == [k \in DOMAIN r.called |-> [cmd |-> i, input |-> r.called[k]]]
         IN  IF r.returned THEN [calls |-> here, attempted |-> <<i>>, help |-> 0]
             ELSE LET rest == execute_from(list, i + 1, tokens)
                  IN  [calls     |-> here \o rest.calls,
                       attempted |-> <<i>> \o rest.attempted,
                       help      |-> rest.help]

execute(list, tokens) == execute_from(list, 1, tokens)

----------------------------------------------------------------------------
(* Styled nodes. A Node is [isNode, name, params, children]: name is a     *)
(* JSX.Key or NoKey (no name), params is <<>> (null, or no idt) or <<n>>   *)
(* ({idt: n}), children are Nodes and text fragments [isNode, text]. A     *)
(* child handed to createElement is a Node, a plain string [plain] or an   *)
(* array [items].                                                          *)

NoKey == ""

Node(children, params, name) == [isNode |-> TRUE, name |-> name, params |-> params, children |-> children]
TextChild(str) == [isNode |-> FALSE, text |-> str]
Plain(str) == [plain |-> str]
Array(items) == [items |-> items]

IsNodeValue(child) == "isNode" \in DOMAIN child /\ child.isNode
IsArrayValue(child) == "items" \in DOMAIN child

RECURSIVE collapseChildren_loop(_, _, _, _)
RECURSIVE collapseChildren(_)
\* the for loop of collapseChildren from the k-th child on, then the final push
collapseChildren_loop(children, k, newChildren, currStr) ==
    IF k > Len(children)
    THEN (IF currStr # <<>> THEN Append(newChildren, TextChild(currStr)) ELSE newChildren)
    ELSE LET child == children[k]
         IN  IF IsNodeValue(child)
             THEN collapseChildren_loop(children, k + 1,
                      Append(Append(newChildren, TextChild(currStr)), child), <<>>)
             ELSE IF IsArrayValue(child)
             THEN collapseChildren_loop(children, k + 1,
                      Append(newChildren, TextChild(currStr)) \o collapseChildren(child.items), <<>>)
             ELSE collapseChildren_loop(children, k + 1, newChildren, currStr \o child.plain)

collapseChildren(children) == collapseChildren_loop(children, 1, <<>>, <<>>)

\* createElement(t, params, ...children) for t a JSX.Key or undefined (NoKey)
createElement(t, params, children) == Node(collapseChildren(children), params, t)

FG_COLOR == <<"black", "red", "green", "yellow", "blue", "magenta", "cyan", "white", "default">>
BG_COLOR == <<"bg-black", "bg-red", "bg-green", "bg-yellow", "bg-blue", "bg-magenta",
              "bg-cyan", "bg-white", "bg-default">>

getStyle(style) ==
    CASE style = "black" -> 30
      [] style = "red" -> 31
      [] style = "green" -> 32
      [] style = "yellow" -> 33
      [] style = "blue" -> 34
      [] style = "magenta" -> 35
      [] style = "cyan" -> 36
      [] style = "white" -> 37
      [] style = "default" -> 39
      [] style = "bg-black" -> 40
      [] style = "bg-red" -> 41
      [] style = "bg-green" -> 42
      [] style = "bg-yellow" -> 43
      [] style = "bg-blue" -> 44
      [] style = "bg-magenta" -> 45
      [] style = "bg-cyan" -> 46
      [] style = "bg-white" -> 47
      [] style = "bg-default" -> 49
      [] style = "bold" -> 1
      [] style = "italic" -> 3
      [] style = "underline" -> 4
      [] style = "strikethrough" -> 9
      [] OTHER -> 0

\* styles.filter(key => list.indexOf(key) == -1)
FilterOut(styles, list) == SelectSeq(styles, LAMBDA key : IndexOf(list, key) = 0)

RECURSIVE getStyleString_loop(_, _, _)
\* the loop pushing a colour without filtering the earlier colours out
getStyleString_loop_noReplace(style, k, styles) ==
    IF k > Len(style) THEN styles
    ELSE LET curr == style[k]
         IN  IF IndexOf(styles, curr) # 0
             THEN getStyleString_loop(style, k + 1,
                      Append(SelectSeq(styles, LAMBDA key : IndexOf(styles, curr) = 0), curr))
             ELSE IF curr = "reset"
             THEN getStyleString_loop(style, k + 1, <<>>)
             ELSE getStyleString_loop(style, k + 1, Append(styles, curr))

\* the for loop of getStyleString from the k-th key of the style array on
getStyleString_loop(style, k, styles) ==
    IF k > Len(style) THEN styles
    ELSE LET curr == style[k]
         IN  IF IndexOf(FG_COLOR, curr) # 0
             THEN getStyleString_loop(style, k + 1, Append(FilterOut(styles, FG_COLOR), curr))
             ELSE IF IndexOf(BG_COLOR, curr) # 0
             THEN getStyleString_loop(style, k + 1, Append(FilterOut(styles, BG_COLOR), curr))
             ELSE IF IndexOf(styles, curr) # 0
             THEN getStyleString_loop(style, k + 1,
                      Append(SelectSeq(styles, LAMBDA key : IndexOf(styles, curr) = 0), curr))
             ELSE IF curr = "reset"
             THEN getStyleString_loop(style, k + 1, <<>>)
             ELSE getStyleString_loop(style, k + 1, Append(styles, curr))

\* getStyleString(): the codes that join(";") writes, in order
getStyleString(style) ==
    LET styles == getStyleString_loop(style, 1, <<>>)
    IN  [i \in DOMAIN styles |-> getStyle(styles[i])]

\* A rendered string is a sequence of pieces: a character, or the escape
\* sequence ESC [ 0 ; codes m.
Esc(codes) == [esc |-> TRUE, codes |-> codes, ch |-> ""]
Ch(c) == [esc |-> FALSE, codes |-> <<>>, ch |-> c]
Chars(str) == [i \in DOMAIN str |-> Ch(str[i])]

\* printStyle(): what it appends to out
printStyle(style) == <<Esc(getStyleString(style))>>

\* removeStyle() printing the terminal default after the pop
removeStyle_toDefault(style) ==
    LET popped == SubSeq(style, 1, Len(style) - 1)
    IN  [style |-> popped, out |-> <<Esc(<<>>)>>]

\* removeStyle() printing without the pop
removeStyle_noPop(style) == [style |-> style, out |-> printStyle(style)]

\* appendStyle(newStyle) and removeStyle(): [style, out], the style array
\* after the call and what the call appended to out
appendStyle(style, newStyle) ==
    LET pushed == Append(style, newStyle)
    IN  [style |-> pushed, out |-> printStyle(pushed)]

removeStyle(style) ==
    LET popped == SubSeq(style, 1, Len(style) - 1)
    IN  [style |-> popped, out |-> printStyle(popped)]

\* " ".repeat((node.params ?? {})["idt"] ?? 1)
Indent(params) == LET n == IF params = <<>> THEN 1 ELSE params[1] IN [i \in 1 .. n |-> Ch(" ")]

StyleEvent(op, name, r) == [op |-> op, name |-> name, codes |-> r.out[1].codes, style |-> r.style]

RECURSIVE getString(_, _)
RECURSIVE getString_children(_, _, _)

\* the for loop over node.children from the k-th child on: [out, style, events]
getString_children(children, k, style) ==
    IF k > Len(children) THEN [out |-> <<>>, style |-> style, events |-> <<>>]
    ELSE LET child == children[k]
             one   == IF ~child.isNode
                      THEN [out |-> Chars(child.text), style |-> style, events |-> <<>>]
                      ELSE getString(child, style)
             rest  == getString_children(children, k + 1, one.style)
         IN  [out |-> one.out \o rest.out, style |-> rest.style, events |-> one.events \o rest.events]

\* getString without the two early returns: br and tab styled like any name
getString_structuralStyled(n, style) ==
    IF n.name = NoKey
    THEN getString_children(n.children, 1, style)
    ELSE LET opened == appendStyle(style, n.name)
             body   == getString_children(n.children, 1, opened.style)
             closed == removeStyle(body.style)
         IN  [out    |-> opened.out \o body.out \o closed.out,
              style  |-> closed.style,
              events |-> <<StyleEvent("push", n.name, opened)>> \o body.events
                         \o <<StyleEvent("pop", n.name, closed)>>]

\* getString(node, style): [out, style, events], the string returned, the
\* shared style array as the call leaves it, and the pushes and pops it made
getString(n, style) ==
    IF n.name = "br" THEN [out |-> <<Ch("\n")>>, style |-> style, events |-> <<>>]
    ELSE IF n.name = "tab" THEN [out |-> Indent(n.params), style |-> style, events |-> <<>>]
    ELSE IF n.name = NoKey
    THEN getString_children(n.children, 1, style)
    ELSE LET opened == appendStyle(style, n.name)
             body   == getString_children(n.children, 1, opened.style)
             closed == removeStyle(body.style)
         IN  [out    |-> opened.out \o body.out \o closed.out,
              style  |-> closed.style,
              events |-> <<StyleEvent("push", n.name, opened)>> \o body.events
                         \o <<StyleEvent("pop", n.name, closed)>>]

RECURSIVE Height(_)
\* how deeply Nodes are nested in a Node
Height(n) ==
    LET kids == {k \in DOMAIN n.children : n.children[k].isNode}
    IN  IF kids = {} THEN 1
        ELSE 1 + (CHOOSE h \in {Height(n.children[k]) : k \in kids} :
                      \A k \in kids : Height(n.children[k]) <= h)

----------------------------------------------------------------------------
(* Inputs.                                                                 *)

SeqsUpTo(S, n) == UNION {[1 .. k -> S] : k \in 0 .. n}

TokAdd   == <<"A","d","d">>
TokThree == <<"3">>
TokZero  == <<"0">>
TokTrue  == <<"T","r","u","e">>
TokFalse == <<"f","a","l","s","e">>
TokEmpty == <<>>
TokSevenX == <<"7","x">>

\* the tokens a cursor or a matcher under test is run on
Tokens == {TokAdd, TokZero, TokTrue, TokFalse, TokEmpty, TokSevenX}
TokenLists == SeqsUpTo(Tokens, MaxTokens)

\* the tokens of Deno.args given to execute()
CliTokens == {TokAdd, TokThree, TokZero}
ArgvLists == SeqsUpTo(CliTokens, MaxArgv)

LitAdd == <<"a","d","d">>
LitEmpty == <<>>
ParamName == "uwu"

\* the matchers set-up starts from, and the operands or() is given
Leaves == {Builtin_STRING, Builtin_NUMBER, Builtin_BOOLEAN, literal(LitAdd), literal(LitEmpty)}
OrOperands == {Builtin_STRING, Builtin_NUMBER, literal(LitAdd),
               optional(Builtin_BOOLEAN), named(literal(LitAdd), ParamName)}

\* the matcher lists of the commands register() is given
CliArgLists ==
    {<<>>,
     <<literal(LitAdd)>>,
     <<Builtin_NUMBER>>,
     <<optional(Builtin_NUMBER)>>,
     <<literal(LitAdd), Builtin_NUMBER>>,
     <<literal(LitAdd), optional(Builtin_NUMBER)>>,
     <<optional(Builtin_NUMBER), Builtin_NUMBER>>,
     <<literal(LitAdd), Builtin_NUMBER, Builtin_NUMBER>>,
     <<named(literal(LitAdd), ParamName), or(Builtin_NUMBER, Builtin_STRING), optional(Builtin_STRING)>>}
Commands == {[args |-> l] : l \in CliArgLists}

NoParse == [entry |-> -1, ret |-> Undefined, exit |-> -1, done |-> FALSE]
NoCall == [fn |-> "none", type1 |-> Builtin_STRING, type2 |-> Builtin_STRING]
NoNode == [none |-> TRUE]

TextA == <<"a">>
TextB == <<"b">>
IdtTwo == <<2>>

\* the element types and params createElement is given
ElementTypes == {"red", "blue", "bold", "bg-green", "br", "tab", NoKey}
ParamsOf(t) == IF t = "tab" THEN {<<>>, IdtTwo} ELSE {<<>>}

\* the names of the styled nodes a rendering in progress has entered
StyleKeys == {"red", "blue", "bg-green", "bg-blue", "bold", "italic", "reset"}

\* the child lists createElement is given: plain strings, and the Node built last
ChildLists(n) ==
    IF n = NoNode
    THEN {<<>>, <<Plain(TextA)>>}
    ELSE {<<n>>, <<Plain(TextA), n, Plain(TextB), n>>}

\* child lists with arrays: n is the Node built last, or a plain string
\* where no Node was built yet
ArrayChildLists(n) ==
    LET item == IF n = NoNode THEN Plain(TextB) ELSE n
    IN  {<<Array(<<>>)>>,
         <<Array(<<Plain(TextA)>>)>>,
         <<Plain(TextA), Array(<<Plain(TextB)>>)>>,
         <<Plain(TextA), Plain(TextB), item>>,
         <<Array(<<item, item>>)>>,
         <<Plain(TextA), Array(<<item, Plain(TextB)>>), item>>,
         <<Array(<<Array(<<Plain(TextA)>>), item>>), Plain(TextB)>>}

----------------------------------------------------------------------------
(* The cursor alone: any sequence of next() and last() on a new ArgIter.   *)

IterIdle == /\ iterOp = "none" /\ iterRet = Undefined /\ iterRead = {} /\ iterPrev = -1
ParseIdle == /\ arg = Builtin_STRING /\ made = NoCall /\ thrown = NoError /\ parsed = NoParse
CliIdle == /\ cmds = <<>> /\ argv = <<>> /\ pc = "setup" /\ calls = <<>>
           /\ attempted = <<>> /\ helpCount = 0
RenderIdle == /\ node = NoNode /\ rendered = FALSE /\ printed = <<>>
              /\ events = <<>> /\ styleEnd = <<>>

InitIter ==
    /\ args \in TokenLists
    /\ idx = -1
    /\ iterOp = "new" /\ iterRet = Undefined /\ iterRead = {} /\ iterPrev = -1
    /\ ParseIdle
    /\ CliIdle
    /\ RenderIdle

IterNext ==
    LET r == ArgIter_next([args |-> args, idx |-> idx])
    IN  /\ iterOp \in {"new", "next", "last"}
        /\ idx' = r.iter.idx
        /\ iterOp' = "next" /\ iterRet' = r.ret /\ iterRead' = r.read /\ iterPrev' = idx
        /\ UNCHANGED <<args, parseVars, cliVars, renderVars>>

IterLast ==
    LET r == ArgIter_last([args |-> args, idx |-> idx])
    IN  /\ iterOp \in {"new", "next", "last"}
        /\ idx' = r.iter.idx
        /\ iterOp' = "last" /\ iterRet' = r.ret /\ iterRead' = r.read /\ iterPrev' = idx
        /\ UNCHANGED <<args, parseVars, cliVars, renderVars>>

NextIter == IterNext \/ IterLast
SpecIter == InitIter /\ [][NextIter]_vars

----------------------------------------------------------------------------
(* Matchers: a matcher is built at set-up (optional and or applied in any  *)
(* order, named applied last, as in the README), then a cursor is made and *)
(* the matcher is run on it, once or repeatedly.                           *)

InitParse ==
    /\ args = <<>> /\ idx = -1
    /\ IterIdle
    /\ arg \in Leaves /\ made = NoCall /\ thrown = NoError /\ parsed = NoParse
    /\ CliIdle
    /\ RenderIdle

SetupOpen == iterOp = "none" /\ thrown = NoError /\ arg.name = NoName /\ cmds = <<>> /\ pc = "setup"

ApplyOptional ==
    /\ SetupOpen
    /\ Depth(arg) < MaxDepth
    /\ arg' = optional(arg)
    /\ made' = [fn |-> "optional", type1 |-> arg, type2 |-> arg]
    /\ UNCHANGED <<iterVars, thrown, parsed, cliVars, renderVars>>

ApplyNamed ==
    /\ SetupOpen
    /\ arg' = named(arg, ParamName)
    /\ made' = [fn |-> "named", type1 |-> arg, type2 |-> arg]
    /\ UNCHANGED <<iterVars, thrown, parsed, cliVars, renderVars>>

\* or(arg, other) or or(other, arg): a throw ends set-up
ApplyOr ==
    /\ SetupOpen
    /\ Depth(arg) < MaxDepth
    /\ \E other \in OrOperands, argFirst \in BOOLEAN :
          LET type1 == IF argFirst THEN arg ELSE other
              type2 == IF argFirst THEN other ELSE arg
              r     == or(type1, type2)
          IN  /\ made' = [fn |-> "or", type1 |-> type1, type2 |-> type2]
              /\ IF IsError(r)
                 THEN thrown' = r /\ arg' = arg
                 ELSE thrown' = thrown /\ arg' = r
    /\ UNCHANGED <<iterVars, parsed, cliVars, renderVars>>

\* new ArgIter(tokens)
NewIter ==
    /\ thrown = NoError /\ cmds = <<>> /\ pc = "setup"
    /\ iterOp = "none"
    /\ \E tokens \in TokenLists : args' = tokens
    /\ idx' = -1
    /\ iterOp' = "parse"
    /\ parsed' = NoParse
    /\ UNCHANGED <<iterRet, iterRead, iterPrev, arg, made, thrown, cliVars, renderVars>>

\* arg.parse(iter)
Parse ==
    /\ iterOp = "parse"
    /\ LET r == parse(arg, [args |-> args, idx |-> idx])
       IN  /\ idx' = r.iter.idx
           /\ parsed' = [entry |-> idx, ret |-> r.ret, exit |-> r.iter.idx, done |-> TRUE]
    /\ UNCHANGED <<args, iterOp, iterRet, iterRead, iterPrev, arg, made, thrown, cliVars, renderVars>>

----------------------------------------------------------------------------
(* The dispatcher: commands are registered, then execute() runs once.      *)

Init ==
    /\ args = <<>> /\ idx = -1
    /\ IterIdle
    /\ ParseIdle
    /\ CliIdle
    /\ RenderIdle

\* cli.register(cmd)
Register(cmd) ==
    /\ pc = "setup"
    /\ Len(cmds) < MaxCmds
    /\ cmds' = Append(cmds, cmd)
    /\ UNCHANGED <<iterVars, parseVars, renderVars, argv, pc, calls, attempted, helpCount>>

\* cli.execute(), reading Deno.args = tokens
Execute(tokens) ==
    /\ pc = "setup"
    /\ LET r == execute(cmds, tokens)
       IN  /\ argv' = tokens
           /\ calls' = r.calls
           /\ attempted' = r.attempted
           /\ helpCount' = helpCount + r.help
    /\ pc' = "done"
    /\ UNCHANGED <<iterVars, parseVars, renderVars, cmds>>

Next ==
    \/ \E cmd \in Commands : Register(cmd)
    \/ \E tokens \in ArgvLists : Execute(tokens)
Spec == Init /\ [][Next]_vars

\* cli.register({args: [arg], call}): the matcher under test as a command
RegisterArg ==
    /\ iterOp = "none" /\ thrown = NoError /\ cmds = <<>>
    /\ Register([args |-> <<arg>>])

\* cli.execute() of that one command
ExecuteArg ==
    /\ cmds # <<>>
    /\ \E tokens \in TokenLists : Execute(tokens)

NextParse ==
    \/ ApplyOptional \/ ApplyNamed \/ ApplyOr
    \/ NewIter \/ Parse
    \/ RegisterArg \/ ExecuteArg
SpecParse == InitParse /\ [][NextParse]_vars

----------------------------------------------------------------------------
(* The renderer: a tree is built bottom-up by createElement, then printed. *)

InitRender ==
    /\ args = <<>> /\ idx = -1
    /\ IterIdle
    /\ ParseIdle
    /\ CliIdle
    /\ RenderIdle

\* node = createElement(t, params, ...children)
CreateElement ==
    /\ ~rendered
    /\ node # NoNode => Height(node) < MaxNest
    /\ \E t \in ElementTypes :
          \E params \in ParamsOf(t), children \in ChildLists(node) :
              node' = createElement(t, params, children)
    /\ UNCHANGED <<iterVars, parseVars, cliVars, rendered, printed, events, styleEnd>>

\* print(node): console.log(getString(node)), with style = []
PrintNode ==
    /\ ~rendered
    /\ node # NoNode
    /\ LET r == getString(node, <<>>)
       IN  /\ printed' = r.out
           /\ events' = r.events
           /\ styleEnd' = r.style
    /\ rendered' = TRUE
    /\ UNCHANGED <<iterVars, parseVars, cliVars, node>>

NextRender == CreateElement \/ PrintNode
SpecRender == InitRender /\ [][NextRender]_vars

----------------------------------------------------------------------------
(* createElement alone, given child lists that hold arrays.                *)

\* node = createElement(t, null, ...children), children holding arrays
CreateElementArrays ==
    /\ ~rendered
    /\ node # NoNode => Height(node) < MaxNest
    /\ \E t \in {"red", NoKey}, children \in ArrayChildLists(node) :
          node' = createElement(t, <<>>, children)
    /\ UNCHANGED <<iterVars, parseVars, cliVars, rendered, printed, events, styleEnd>>

NextElement == CreateElementArrays
SpecElement == InitRender /\ [][NextElement]_vars

----------------------------------------------------------------------------
(* A rendering in progress, one style call at a time: getString enters a   *)
(* named node (appendStyle) or leaves the innermost open one (removeStyle).*)
(* styleEnd is the shared style array, events holds the event of the last  *)
(* call and printed what that call appended to out.                        *)

\* if (node.name) appendStyle(node.name), on entering a node named key
AppendStyle(key) ==
    /\ ~rendered /\ node = NoNode
    /\ Len(styleEnd) < MaxNest
    /\ LET r == appendStyle(styleEnd, key)
       IN  /\ styleEnd' = r.style
           /\ printed' = r.out
           /\ events' = <<StyleEvent("push", key, r)>>
    /\ UNCHANGED <<iterVars, parseVars, cliVars, node, rendered>>

\* if (node.name) removeStyle(), on leaving the innermost open node
RemoveStyle ==
    /\ ~rendered /\ node = NoNode
    /\ styleEnd # <<>>
    /\ LET r == removeStyle(styleEnd)
       IN  /\ styleEnd' = r.style
           /\ printed' = r.out
           /\ events' = <<StyleEvent("pop", styleEnd[Len(styleEnd)], r)>>
    /\ UNCHANGED <<iterVars, parseVars, cliVars, node, rendered>>

NextStyle ==
    \/ \E key \in StyleKeys : AppendStyle(key)
    \/ RemoveStyle
SpecStyle == InitRender /\ [][NextStyle]_vars

----------------------------------------------------------------------------
(* Properties of the cursor and of the matchers.                           *)

\* the cursor as the last parse found it
EntryIter == [args |-> args, idx |-> parsed.entry]

\* C8: a next() that would pass the last token returns absent and leaves the
\* position at length-1; a last() that would pass the first token returns absent
\* and leaves the position at 0; no call reads args outside 0..length-1.
C8_CursorClamps ==
    /\ (iterOp = "next" /\ iterPrev + 1 >= Len(args)) =>
          (iterRet = Undefined /\ idx = Len(args) - 1 /\ iterRead = {})
    /\ (iterOp = "last" /\ iterPrev - 1 < 0) =>
          (iterRet = Undefined /\ idx = 0 /\ iterRead = {})
    /\ iterRead \subseteq 0 .. (Len(args) - 1)

\* a next() called at the last token of a list of two or more
C8_Witness ==
    /\ iterOp = "next" /\ Len(args) >= 2
    /\ iterPrev = Len(args) - 1
    /\ iterRet = Undefined /\ idx = Len(args) - 1

\* C2: a matcher whose parse returns absent leaves the cursor where it found it.
C2_FailedParseKeepsCursor ==
    (parsed.done /\ parsed.ret = Undefined) => parsed.exit = parsed.entry

\* C4: where A alone and B alone both return a present value, or(A,B) returns
\* A's value and leaves the cursor where A alone leaves it.
C4_OrLeftBiased ==
    (parsed.done /\ arg.kind = "or") =>
        LET a == parse(arg.subs[1], EntryIter)
            b == parse(arg.subs[2], EntryIter)
        IN  (a.ret # Undefined /\ b.ret # Undefined) =>
                (parsed.ret = a.ret /\ parsed.exit = a.iter.idx)

\* C5: optional(M) leaves the cursor where M alone leaves it when M succeeds,
\* and at the entry position when M fails.
C5_OptionalCursor ==
    (parsed.done /\ arg.kind = "optional") =>
        LET m == parse(arg.subs[1], EntryIter)
        IN  IF m.ret # Undefined
            THEN parsed.exit = m.iter.idx
            ELSE parsed.exit = parsed.entry

\* C6: optional(M).parse never returns absent: it returns M's value when M
\* succeeds and null when M fails; a command made of that matcher alone is
\* matched on every token list and its callback receives that value.
C6_OptionalNeverAbsent ==
    arg.kind = "optional" =>
        /\ parsed.done =>
              LET m == parse(arg.subs[1], EntryIter)
              IN  /\ parsed.ret # Undefined
                  /\ parsed.ret = IF m.ret # Undefined THEN m.ret ELSE Null
        /\ (pc = "done" /\ cmds = <<[args |-> <<arg>>]>>) =>
              LET m == parse(arg.subs[1], [args |-> argv, idx |-> -1])
              IN  /\ calls = <<[cmd |-> 1, input |-> <<IF m.ret # Undefined THEN m.ret ELSE Null>>]>>
                  /\ helpCount = 0

\* the command [optional(M)] run on no token at all: the callback receives null
C6_Witness ==
    /\ pc = "done" /\ arg.kind = "optional" /\ argv = <<>>
    /\ cmds = <<[args |-> <<arg>>]>>
    /\ calls = <<[cmd |-> 1, input |-> <<Null>>]>>

\* C10: or(A,B) throws at construction exactly when A or B is a literal or an
\* optional matcher, and then nothing has been parsed; otherwise it returns a
\* matcher that is neither literal nor optional.
C10_OrThrowsIffLiteralOrOptional ==
    made.fn = "or" =>
        LET bad == \/ made.type1.literal \/ made.type2.literal
                   \/ made.type1.optional \/ made.type2.optional
        IN  /\ IsError(thrown) <=> bad
            /\ IsError(thrown) => (~parsed.done /\ calls = <<>> /\ pc = "setup")
            /\ ~bad => (/\ arg.kind = "or" /\ arg.subs = <<made.type1, made.type2>>
                        /\ ~arg.literal /\ ~arg.optional)

\* or(A, optional(B)) with A neither literal nor optional: thrown
C10_Witness ==
    /\ made.fn = "or" /\ IsError(thrown)
    /\ made.type2.optional /\ ~made.type2.literal
    /\ ~made.type1.literal /\ ~made.type1.optional

\* the token list has a token after position i and it is v, case aside
NextTokenIs(tokens, i, v) ==
    /\ i + 1 < Len(tokens)
    /\ toLocaleLowerCase(tokens[i + 2]) = toLocaleLowerCase(v)

\* C11: literal(v).parse returns true when the next token equals v
\* case-insensitively, and absent on every other token and on an exhausted
\* cursor; the command [literal(v)] matches a token list exactly when the list
\* is non-empty and its first token equals v case-insensitively.
C11_LiteralMatchesFirstToken ==
    arg.kind = "literal" =>
        /\ parsed.done =>
              parsed.ret = (IF NextTokenIs(args, parsed.entry, arg.val) THEN Bool(TRUE) ELSE Undefined)
        /\ (pc = "done" /\ cmds = <<[args |-> <<arg>>]>>) =>
              /\ NextTokenIs(argv, -1, arg.val) <=> calls = <<[cmd |-> 1, input |-> <<>>]>>
              /\ ~NextTokenIs(argv, -1, arg.val) <=> (calls = <<>> /\ helpCount = 1)

\* C12: or(A,B).parse returns A's value whenever A returns a present value, and
\* returns absent only when A and B, each run from or's entry position, both
\* return absent.
C12_OrReturnsFirstPresent ==
    (parsed.done /\ arg.kind = "or") =>
        LET a == parse(arg.subs[1], EntryIter)
            b == parse(arg.subs[2], EntryIter)
        IN  /\ a.ret # Undefined => parsed.ret = a.ret
            /\ parsed.ret = Undefined => (a.ret = Undefined /\ b.ret = Undefined)

\* C13: whenever or(A,B).parse attempts B, the cursor handed to B is at the
\* position or was entered at, over the same tokens, however far A advanced
\* (A may itself be an or); or then returns what B returns from there, and
\* leaves the cursor where B leaves it.
C13_OrRewindsBeforeSecond ==
    (parsed.done /\ arg.kind = "or") =>
        LET a      == parse(arg.subs[1], EntryIter)
            entryB == or_parse_rewound(a, parsed.entry)
            b      == parse(arg.subs[2], EntryIter)
        IN  ~Truthy(a.ret) =>
                /\ entryB.idx = parsed.entry /\ entryB.args = args
                /\ parsed.ret = b.ret /\ parsed.exit = b.iter.idx

\* or(or(A1,A2),B) on a token both A1 and A2 read and reject: B reads it again
C13_Witness ==
    /\ parsed.done /\ arg.kind = "or" /\ arg.subs[1].kind = "or"
    /\ parsed.entry = -1 /\ Len(args) = MaxTokens
    /\ LET a == parse(arg.subs[1], EntryIter)
       IN  a.ret = Undefined /\ a.iter.idx = parsed.entry + 1
    /\ parsed.ret = Str(args[1]) /\ parsed.exit = 0

----------------------------------------------------------------------------
(* Properties of the dispatcher.                                           *)

\* the cursor before the first token of Deno.args
FreshCursor == [args |-> argv, idx |-> -1]

RECURSIVE ChainValues(_, _, _)
\* what the matchers types[k..] return when run in order from iter, up to and
\* including the first absent value
ChainValues(types, k, iter) ==
    IF k > Len(types) THEN <<>>
    ELSE LET p == parse(types[k], iter)
         IN  IF p.ret = Undefined THEN <<p.ret>>
             ELSE <<p.ret>> \o ChainValues(types, k + 1, p.iter)

\* every matcher of command i returns a present value
Matching(i) ==
    LET vals == ChainValues(cmds[i].args, 1, FreshCursor)
    IN  Len(vals) = Len(cmds[i].args) /\ \A k \in DOMAIN vals : vals[k] # Undefined

MatchingCmds == {i \in DOMAIN cmds : Matching(i)}
FirstMatching == CHOOSE i \in MatchingCmds : \A j \in MatchingCmds : i <= j

RECURSIVE NonLiteralValues(_, _, _)
\* the values of vals at the positions k.. of the non-literal matchers of types
NonLiteralValues(types, vals, k) ==
    IF k > Len(types) THEN <<>>
    ELSE (IF types[k].literal THEN <<>> ELSE <<vals[k]>>) \o NonLiteralValues(types, vals, k + 1)

\* C1: execute() invokes the callback of the first command, in registration
\* order, whose every matcher returns a present value from a cursor before the
\* first token, and no other callback; no later command is attempted.
C1_FirstMatchingCommandRuns ==
    pc = "done" =>
        /\ Len(calls) <= 1
        /\ MatchingCmds = {} => (calls = <<>> /\ attempted = [k \in 1 .. Len(cmds) |-> k])
        /\ MatchingCmds # {} =>
              /\ Len(calls) = 1 /\ calls[1].cmd = FirstMatching
              /\ attempted = [k \in 1 .. FirstMatching |-> k]

\* two matching commands, the first needing fewer tokens than there are and
\* fewer than the second: the first ran
C1_Witness ==
    /\ pc = "done" /\ Len(cmds) = 2
    /\ MatchingCmds = {1, 2}
    /\ Len(cmds[1].args) < Len(cmds[2].args) /\ Len(cmds[1].args) < Len(argv)
    /\ Len(calls) = 1 /\ calls[1].cmd = 1

\* C3: the callback of the matched command receives the values of its
\* non-literal matchers, in matcher order, and nothing for a literal matcher.
C3_CallbackGetsNonLiteralValues ==
    pc = "done" =>
        \A c \in DOMAIN calls :
            LET types == cmds[calls[c].cmd].args
                vals  == ChainValues(types, 1, FreshCursor)
            IN  /\ Len(calls[c].input) = Cardinality({k \in DOMAIN types : ~types[k].literal})
                /\ calls[c].input = NonLiteralValues(types, vals, 1)

\* add 3 0 against [literal(add), NUMBER, NUMBER]: the callback gets (3, 0)
C3_Witness ==
    /\ pc = "done" /\ argv = <<TokAdd, TokThree, TokZero>>
    /\ Len(calls) = 1
    /\ cmds[calls[1].cmd].args = <<literal(LitAdd), Builtin_NUMBER, Builtin_NUMBER>>
    /\ calls[1].input = <<Num(3), Num(0)>>

\* C9: execute() prints the help exactly when no registered command matches,
\* after trying every command, and never when a callback ran.
C9_HelpIffNoMatch ==
    /\ pc = "setup" => helpCount = 0
    /\ pc = "done" =>
          /\ helpCount = (IF MatchingCmds = {} THEN 1 ELSE 0)
          /\ helpCount = 1 => (calls = <<>> /\ attempted = [k \in 1 .. Len(cmds) |-> k])
          /\ calls # <<>> => helpCount = 0

\* two registered commands, both tried and rejected: the help is printed
C9_Witness ==
    /\ pc = "done" /\ Len(cmds) = 2 /\ attempted = <<1, 2>>
    /\ calls = <<>> /\ helpCount = 1

\* C17: each command execute() attempts is run on a cursor before the first
\* token of Deno.args: it matches exactly when its matchers, run in order from
\* that cursor, all return a present value, its callback gets the values read
\* from there, and the outcome is the one of executing that command alone,
\* whatever commands were attempted before it and however far they advanced.
C17_AttemptsStartFresh ==
    pc = "done" =>
        \A k \in DOMAIN attempted :
            LET i     == attempted[k]
                types == cmds[i].args
                mine  == SelectSeq(calls, LAMBDA c : c.cmd = i)
                alone == execute(<<cmds[i]>>, argv)
            IN  /\ Matching(i) <=> mine # <<>>
                /\ Matching(i) =>
                      mine = <<[cmd |-> i, input |-> NonLiteralValues(types, ChainValues(types, 1, FreshCursor), 1)]>>
                /\ [c \in DOMAIN mine |-> mine[c].input] = [c \in DOMAIN alone.calls |-> alone.calls[c].input]

\* add 3 against [literal(add), NUMBER, NUMBER] then [literal(add), NUMBER]:
\* the first command reads both tokens before it is rejected, the second
\* matches and gets 3
C17_Witness ==
    /\ pc = "done" /\ argv = <<TokAdd, TokThree>> /\ attempted = <<1, 2>>
    /\ cmds[1].args = <<literal(LitAdd), Builtin_NUMBER, Builtin_NUMBER>>
    /\ Len(ChainValues(cmds[1].args, 1, FreshCursor)) = 3
    /\ cmds[2].args = <<literal(LitAdd), Builtin_NUMBER>>
    /\ calls = <<[cmd |-> 2, input |-> <<Num(3)>>]>>

----------------------------------------------------------------------------
(* Properties of the renderer.                                             *)

IsFgColour(key) == IndexOf(FG_COLOR, key) # 0
FgCodes(codes) == {codes[i] : i \in DOMAIN codes} \cap (30 .. 39)
Top(style) == style[Len(style)]

\* the codes of the escape sequences of a rendered string, in order
EscapeCodes(out) ==
    LET escs == SelectSeq(out, LAMBDA piece : piece.esc)
    IN  [i \in DOMAIN escs |-> escs[i].codes]

\* C7: when a node of foreground colour B closes inside a node of another
\* foreground colour A, the escape sequence written then carries A's colour
\* code and no other colour (it is A's code alone when A is the only open
\* node); the default sequence, with no code, is written only once every
\* node is closed.
C7_NestedPopRestoresParentColour ==
    rendered =>
        /\ EscapeCodes(printed) = [i \in DOMAIN events |-> events[i].codes]
        /\ \A i \in DOMAIN events :
              LET e == events[i]
              IN  /\ (/\ e.op = "pop" /\ IsFgColour(e.name)
                      /\ e.style # <<>> /\ IsFgColour(Top(e.style)) /\ Top(e.style) # e.name) =>
                         /\ e.codes # <<>>
                         /\ FgCodes(e.codes) = {getStyle(Top(e.style))}
                         /\ e.style = <<Top(e.style)>> => e.codes = <<getStyle(Top(e.style))>>
                  /\ e.codes = <<>> => (e.op = "pop" /\ e.style = <<>>)

\* <red><blue>a</blue></red>: 0;31 is written after blue's children, 0; last
C7_Witness ==
    /\ rendered /\ Len(events) = 4
    /\ events[3].op = "pop" /\ events[3].name = "blue"
    /\ events[3].style = <<"red">> /\ events[3].codes = <<31>>
    /\ events[4].op = "pop" /\ events[4].name = "red" /\ events[4].codes = <<>>
    /\ EscapeCodes(printed) = << <<31>>, <<34>>, <<31>>, <<>> >>

IsAttribute(key) == key \in {"bold", "italic", "underline", "strikethrough"}
CodeSet(codes) == {codes[i] : i \in DOMAIN codes}
\* the style array as it was before the push of event e
BeforePush(e) == SubSeq(e.style, 1, Len(e.style) - 1)

\* C14: when an attribute (bold, italic, underline, strikethrough) that is
\* active in the resolved style is pushed again, the escape sequence written
\* by the push no longer carries the attribute's code, and carries every other
\* code the resolved style had before the push.
C14_RepeatedAttributeTogglesOff ==
    rendered =>
        \A i \in DOMAIN events :
            LET e      == events[i]
                before == CodeSet(getStyleString(BeforePush(e)))
            IN  (e.op = "push" /\ IsAttribute(e.name) /\ getStyle(e.name) \in before) =>
                    /\ getStyle(e.name) \notin CodeSet(e.codes)
                    /\ before \ {getStyle(e.name)} \subseteq CodeSet(e.codes)

IsBgColour(key) == IndexOf(BG_COLOR, key) # 0
FgAt(codes) == {i \in DOMAIN codes : codes[i] \in 30 .. 39}
BgAt(codes) == {i \in DOMAIN codes : codes[i] \in 40 .. 49}
\* the keys of a style array that are foreground (background) colours, in order
FgKeys(style) == SelectSeq(style, IsFgColour)
BgKeys(style) == SelectSeq(style, IsBgColour)

\* C15: the codes of every escape sequence written hold at most one
\* foreground colour code (30-39) and at most one background colour code
\* (40-49); such a code is the code of the innermost open node of that kind;
\* a foreground push keeps the background code the resolved style had, and a
\* background push keeps the foreground code.
C15_OneColourOfEachKind ==
    \A i \in DOMAIN events :
        LET e      == events[i]
            before == getStyleString(BeforePush(e))
        IN  /\ Cardinality(FgAt(e.codes)) <= 1
            /\ Cardinality(BgAt(e.codes)) <= 1
            /\ \A k \in FgAt(e.codes) :
                  FgKeys(e.style) # <<>> /\ e.codes[k] = getStyle(Top(FgKeys(e.style)))
            /\ \A k \in BgAt(e.codes) :
                  BgKeys(e.style) # <<>> /\ e.codes[k] = getStyle(Top(BgKeys(e.style)))
            /\ (e.op = "push" /\ IsFgColour(e.name)) =>
                  {before[k] : k \in BgAt(before)} \subseteq CodeSet(e.codes)
            /\ (e.op = "push" /\ IsBgColour(e.name)) =>
                  {before[k] : k \in FgAt(before)} \subseteq CodeSet(e.codes)

\* blue pushed inside red inside bg-green: blue's code and bg-green's, not red's
C15_Witness ==
    /\ ~rendered /\ styleEnd = <<"bg-green", "red", "blue">>
    /\ Len(events) = 1 /\ events[1].op = "push" /\ events[1].name = "blue"
    /\ CodeSet(events[1].codes) = {42, 34}

IsStructural(n) == n.name \in {"br", "tab"}
\* the style arrays getString can be entered with below the nodes of a tree
OpenKeys == ElementTypes \ {"br", "tab", NoKey}
EnclosingStyles == SeqsUpTo(OpenKeys, MaxNest - 1)
\* n spaces
Spaces(n) == [i \in 1 .. n |-> Ch(" ")]
IdtOf(n) == IF n.params = <<>> THEN 1 ELSE n.params[1]

\* C16: getString on a br node returns one newline, and on a tab node idt
\* spaces (one where idt is not given), with the style array as it was and no
\* escape sequence written, whatever the node's children and the style array.
\* (Every Node of a tree is the Node createElement returned last in an
\* earlier state, so the nodes below the root are covered as well.)
C16_StructuralNodesBypassStyle ==
    (node # NoNode /\ IsStructural(node)) =>
        /\ \A style \in EnclosingStyles :
              LET r == getString(node, style)
              IN  /\ r.style = style /\ r.events = <<>>
                  /\ \A k \in DOMAIN r.out : ~r.out[k].esc
                  /\ node.name = "br" => r.out = <<Ch("\n")>>
                  /\ node.name = "tab" => r.out = Spaces(IdtOf(node))
        /\ rendered =>
              /\ styleEnd = <<>> /\ events = <<>>
              /\ printed = (IF node.name = "br" THEN <<Ch("\n")>> ELSE Spaces(IdtOf(node)))

\* <red>a<tab idt={2}>..</tab>b<tab idt={2}>..</tab></red>, the tab with a
\* child of its own: two spaces where each tab stands, between red's escapes
C16_Witness ==
    /\ rendered /\ node.name = "red" /\ Len(node.children) = 4
    /\ node.children[2].isNode /\ node.children[2].name = "tab"
    /\ node.children[2].params = IdtTwo /\ node.children[2].children # <<>>
    /\ printed = <<Esc(<<31>>), Ch("a"), Ch(" "), Ch(" "), Ch("b"), Ch(" "), Ch(" "), Esc(<<>>)>>

\* C18: in the children of the Node createElement returns, no two adjacent
\* children are both text fragments.
C18_NoAdjacentTextFragments ==
    node # NoNode =>
        \A k \in 1 .. (Len(node.children) - 1) :
            node.children[k].isNode \/ node.children[k + 1].isNode

IsStyled(n) == n.name # NoKey /\ ~IsStructural(n)

RECURSIVE OpenNodes(_, _)
RECURSIVE OpenNodes_children(_, _, _)
\* For each escape sequence the rendering of n is to write, in order, the
\* names of the styled Nodes open at that point, outermost first; open holds
\* the names of the styled Nodes that enclose n.
OpenNodes(n, open) ==
    IF IsStructural(n) THEN <<>>
    ELSE IF n.name = NoKey THEN OpenNodes_children(n.children, 1, open)
    ELSE <<Append(open, n.name)>> \o OpenNodes_children(n.children, 1, Append(open, n.name)) \o <<open>>

OpenNodes_children(children, k, open) ==
    IF k > Len(children) THEN <<>>
    ELSE (IF children[k].isNode THEN OpenNodes(children[k], open) ELSE <<>>)
         \o OpenNodes_children(children, k + 1, open)

\* style arrays getString is entered with
EntryStyles == {<<>>, <<"bold">>, <<"bg-green", "red">>}

\* getString leaves the style array as it found it
StyleRestored ==
    /\ (node # NoNode /\ ~rendered) => \A style \in EntryStyles : getString(node, style).style = style
    /\ rendered => styleEnd = <<>>

\* at each escape sequence the style array holds the names of the styled
\* Nodes open at that point, so its depth is their number
StyleFollowsNesting ==
    rendered =>
        /\ [i \in DOMAIN events |-> events[i].style] = OpenNodes(node, <<>>)
        /\ Len(EscapeCodes(printed)) = Len(events)

EndsWithDefault == printed # <<>> /\ printed[Len(printed)] = Esc(<<>>)

\* C19 as stated: getString leaves the style array as it found it, the depth
\* of the array at each escape sequence is the number of enclosing named
\* non-structural nodes, and printing a named node ends with the escape
\* sequence of the empty array.
C19_BalancedNamedEndsWithDefault ==
    /\ StyleRestored
    /\ StyleFollowsNesting
    /\ (rendered /\ node.name # NoKey) => EndsWithDefault

\* C19 amended: as above, with the last part for a named node that is not
\* structural (not br, not tab).
C19_BalancedStyledEndsWithDefault ==
    /\ StyleRestored
    /\ StyleFollowsNesting
    /\ (rendered /\ IsStyled(node)) => EndsWithDefault

\* a printed tree of three styled Nodes, one in the other: six escape
\* sequences, the array three deep at the third and empty at the last
C19_Witness ==
    /\ rendered /\ IsStyled(node) /\ Len(events) >= 6
    /\ Len(events[3].style) = 3
    /\ events[Len(events)].style = <<>> /\ styleEnd = <<>>
    /\ EndsWithDefault

====
